---- MODULE Spec2Model ----
(***************************************************************************)
(* Deck analysis, win-probability training and the on-disk model cache of  *)
(* CR-Decksmith (src/src/logic.ts, src/src/roles.ts).                      *)
(*                                                                         *)
(* A card name is a sequence of symbols.  A symbol is one of " ", "\n",    *)
(* "(", ")" or a word (a run of other characters, e.g. "Hog Rider").       *)
(* Numbers with decimals are kept as scaled integers: an average elixir    *)
(* rounded to one decimal is kept times 10, one rounded to two decimals    *)
(* times 100.                                                              *)
(***************************************************************************)
EXTENDS Integers, Sequences, FiniteSets, TLC

VARIABLES
    file,       \* roles.ts `file`: the parsed data/roles.map.json, or Null
    deck,       \* the deck handed to analyzeDeck
    analysis,   \* the DeckAnalysis returned for `deck`, or Null
    battles,    \* the battle log returned by the card-data API
    trained,    \* the result of trainWinProbModel on `battles`, or Null
    store,      \* data/models/<key>.json, per key: the file's content
    pc,         \* per call of getOrTrainWinProbModel: where it stands
    arg,        \* per call: its arguments (tag, force); where one function
                \* is called once, the arguments of that call
    local,      \* per call: the awaited result of trainWinProbModel, or Null
    result,     \* per call: the value it returned, or Null; where one
                \* function is called once, the value it returned, or Null
    lastSaved,  \* per key: what the latest call that wrote the file returned
    store0      \* the content of the store before any call

vars == <<file, deck, analysis, battles, trained, store, pc, arg, local,
          result, lastSaved, store0>>

Null == [kind |-> "null"]

(***************************************************************************)
(* Bounds of the model.                                                    *)
(***************************************************************************)
MaxDeckLen == 8
MaxBattles == 11
NCalls == 2
MaxNameLen == 5
MaxFeatureDeck == 3

(***************************************************************************)
(* Card names.                                                             *)
(***************************************************************************)
Card(word) == <<word>>
Variant(word, v) == <<word, " ", "(", v, ")">>

WhiteSpace == {" ", "\n"}

\* Whether /\s*\(.*\)$/ matches n starting at position i.
SuffixMatchAt(n, i) ==
    LET ws == {q \in i..Len(n) : \A r \in i..q : n[r] \in WhiteSpace}
        p == i + Cardinality(ws)
    IN  /\ p < Len(n)
        /\ n[p] = "("
        /\ n[Len(n)] = ")"
        /\ \A q \in (p+1)..(Len(n)-1) : n[q] # "\n"

normalize(n) ==
    LET starts == {i \in 1..Len(n) : SuffixMatchAt(n, i)}
    IN  IF starts = {} THEN n
        ELSE LET i == CHOOSE s \in starts : \A t \in starts : s <= t
             IN  SubSeq(n, 1, i - 1)

Map(f(_), s) == [i \in DOMAIN s |-> f(s[i])]

RECURSIVE SumSeq(_)
SumSeq(s) == IF s = <<>> THEN 0 ELSE s[1] + SumSeq(Tail(s))

Count(s, P(_)) == Cardinality({i \in DOMAIN s : P(s[i])})
Some(s, P(_)) == \E i \in DOMAIN s : P(s[i])
Filter(s, P(_)) == SelectSeq(s, P)

(***************************************************************************)
(* The role/cost registry (roles.ts, first part).  data/roles.map.json is  *)
(* input data: BuiltFile is the file tools/build-roles-from-sources.ts     *)
(* writes for the cards named here, CostOnlyFile is that file with its     *)
(* role arrays emptied by hand, and Null stands for a file that is absent  *)
(* or does not parse (readFileSafe returns null).                          *)
(***************************************************************************)
BASE_WINCONS ==
    {"Hog Rider", "X-Bow", "Mortar", "Royal Giant", "Lava Hound", "Balloon",
     "Giant", "Golem", "Miner", "Goblin Drill", "Graveyard", "Ram Rider",
     "Royal Hogs", "Wall Breakers", "Battle Ram", "Goblin Barrel"}
BIG_SPELLS == {"Fireball", "Poison", "Rocket", "Lightning"}
SMALL_SPELLS ==
    {"The Log", "Zap", "Barbarian Barrel", "Arrows", "Tornado", "Earthquake"}
AIR_HINTS ==
    {"Musketeer", "Archers", "Mega Minion", "Baby Dragon", "Electro Wizard",
     "Inferno Dragon", "Tesla", "Minions", "Bats", "Phoenix", "Archer Queen",
     "Magic Archer", "Hunter", "Princess", "Dart Goblin"}
SPLASH_HINTS ==
    {"Baby Dragon", "Valkyrie", "Wizard", "Executioner", "Bowler",
     "Bomb Tower", "Princess", "Magic Archer"}
RESET_HINTS ==
    {"Zap", "Electro Wizard", "Electro Spirit", "Zappies", "Lightning",
     "Snowball"}

\* The cards of the card-data sources: <<name, elixir, type, rarity>>.
OfficialCards ==
    { <<"Mortar", 4, "building", "common">>,
      <<"Golem", 8, "troop", "epic">>,
      <<"Giant", 5, "troop", "rare">>,
      <<"Goblin Gang", 3, "troop", "common">>,
      <<"Princess", 3, "troop", "legendary">>,
      <<"Hog Rider", 4, "troop", "rare">>,
      <<"Bandit", 3, "troop", "legendary">>,
      <<"Miner", 3, "troop", "legendary">>,
      <<"Knight", 3, "troop", "common">>,
      <<"Skeletons", 1, "troop", "common">>,
      <<"Zap", 2, "spell", "common">>,
      <<"Fireball", 4, "spell", "rare">>,
      <<"Cannon", 3, "building", "common">>,
      <<"Musketeer", 4, "troop", "rare">>,
      <<"Archer Queen", 5, "troop", "champion">> }

RoleNames ==
    {"winCon", "bigSpell", "smallSpell", "building", "airTarget", "splash",
     "reset", "champion"}

\* roleSets of the build tool: the names it places in role k.
BuiltRole(k) ==
    LET tagged(c) ==
            CASE k = "winCon"     -> c[1] \in BASE_WINCONS
              [] k = "bigSpell"   -> c[3] = "spell" /\ c[1] \in BIG_SPELLS
              [] k = "smallSpell" -> /\ c[3] = "spell"
                                     /\ \/ c[1] \in SMALL_SPELLS
                                        \/ c[1] \notin BIG_SPELLS \cup SMALL_SPELLS
              [] k = "building"   -> c[3] = "building"
              [] k = "airTarget"  -> c[1] \in AIR_HINTS
              [] k = "splash"     -> c[1] \in SPLASH_HINTS
              [] k = "reset"      -> c[1] \in RESET_HINTS
              [] k = "champion"   -> c[4] = "champion"
    IN  {Card(c[1]) : c \in {d \in OfficialCards : tagged(d)}}

BuiltCost ==
    [n \in {Card(c[1]) : c \in OfficialCards} |->
        (CHOOSE c \in OfficialCards : c[1] = n[1])[2]]

BuiltFile ==
    [kind |-> "json", COST |-> BuiltCost, ROLE |-> [k \in RoleNames |-> BuiltRole(k)]]
CostOnlyFile ==
    [kind |-> "json", COST |-> BuiltCost, ROLE |-> [k \in RoleNames |-> {}]]

RolesFiles == {Null, BuiltFile, CostOnlyFile}

\* roles.ts: COST = file?.COST ?? {},  ROLE.k = new Set(file?.ROLE.k ?? [])
\* (ROLE is for a file that is null or has a ROLE section; without one the
\* module does not load, see ModuleLoad.)
COST(f) == IF f = Null \/ "COST" \notin DOMAIN f THEN <<>> ELSE f.COST
ROLE(f) ==
    [k \in RoleNames |->
        IF f = Null \/ k \notin DOMAIN f.ROLE THEN {} ELSE f.ROLE[k]]

\* The registry a process holds once roles.ts is loaded from file f; the
\* operators below take it as reg where the code reads COST and ROLE.
Registry(f) == [COST |-> COST(f), ROLE |-> ROLE(f)]

\* COST[c] ?? dflt
CostOr(reg, c, dflt) == IF c \in DOMAIN reg.COST THEN reg.COST[c] ELSE dflt

(***************************************************************************)
(* analyzeDeck and classifyArchetype (logic.ts).                           *)
(***************************************************************************)
ARCHES ==
    <<"Cycle", "Bait", "Beatdown", "Control", "Siege", "Bridge Spam",
      "Hybrid/Other">>

SiegeCards == {Card("X-Bow"), Card("Mortar")}
BeatdownCards ==
    {Card("Golem"), Card("Giant"), Card("Lava Hound"), Card("Elixir Golem"),
     Card("Electro Giant")}
BaitCore ==
    {Card("Goblin Barrel"), Card("Princess"), Card("Goblin Gang"),
     Card("Rascals")}
CycleCards ==
    {Card("Hog Rider"), Card("Ram Rider"), Card("Royal Hogs"),
     Card("Wall Breakers")}
BridgeSpamCore ==
    {Card("Bandit"), Card("Battle Ram"), Card("Royal Ghost"),
     Card("Dark Prince"), Card("P.E.K.K.A")}
ControlCards == {Card("Miner"), Card("Goblin Drill"), Card("Graveyard")}

\* A number with one decimal, times 10; 0/0 is NaN.
NaN == [nan |-> TRUE, x |-> 0]
Num(x) == [nan |-> FALSE, x |-> x]
Geq(a, k) == ~a.nan /\ a.x >= k
Leq(a, k) == ~a.nan /\ a.x <= k

\* Math.round((sum / n) * 10) / 10, times 10
RoundedAvg10(sum, n) ==
    IF n = 0 THEN NaN ELSE Num((20 * sum + n) \div (2 * n))

\* A mutant: the beatdown rule is tried before the siege rule.
classifyBeatdownFirst(names, avg, roles) ==
    IF Some(names, LAMBDA n : n \in BeatdownCards) /\ Geq(avg, 41)
    THEN "Beatdown"
    ELSE IF Some(names, LAMBDA n : n \in SiegeCards) THEN "Siege"
    ELSE IF Count(names, LAMBDA n : n \in BaitCore) >= 2 THEN "Bait"
    ELSE IF Some(names, LAMBDA n : n \in CycleCards) /\ Leq(avg, 32)
    THEN "Cycle"
    ELSE IF Count(names, LAMBDA n : n \in BridgeSpamCore) >= 2
    THEN "Bridge Spam"
    ELSE IF Some(names, LAMBDA n : n \in ControlCards) THEN "Control"
    ELSE "Hybrid/Other"

\* A mutant: one bridge-spam core card is enough.
classifyOneBridgeCard(names, avg, roles) ==
    IF Some(names, LAMBDA n : n \in SiegeCards) THEN "Siege"
    ELSE IF Some(names, LAMBDA n : n \in BeatdownCards) /\ Geq(avg, 41)
    THEN "Beatdown"
    ELSE IF Count(names, LAMBDA n : n \in BaitCore) >= 2 THEN "Bait"
    ELSE IF Some(names, LAMBDA n : n \in CycleCards) /\ Leq(avg, 32)
    THEN "Cycle"
    ELSE IF Count(names, LAMBDA n : n \in BridgeSpamCore) >= 1
    THEN "Bridge Spam"
    ELSE IF Some(names, LAMBDA n : n \in ControlCards) THEN "Control"
    ELSE "Hybrid/Other"

classifyArchetype(names, avg, roles) ==
    IF Some(names, LAMBDA n : n \in SiegeCards) THEN "Siege"
    ELSE IF Some(names, LAMBDA n : n \in BeatdownCards) /\ Geq(avg, 41)
    THEN "Beatdown"
    ELSE IF Count(names, LAMBDA n : n \in BaitCore) >= 2 THEN "Bait"
    ELSE IF Some(names, LAMBDA n : n \in CycleCards) /\ Leq(avg, 32)
    THEN "Cycle"
    ELSE IF Count(names, LAMBDA n : n \in BridgeSpamCore) >= 2
    THEN "Bridge Spam"
    ELSE IF Some(names, LAMBDA n : n \in ControlCards) THEN "Control"
    ELSE "Hybrid/Other"

DeckNotes(roles, avg, archetype) ==
    (IF ~roles.hasAirTargeting THEN <<"No reliable anti-air.">> ELSE <<>>)
    \o (IF ~roles.hasSmallSpell THEN <<"No small spell (Log/Zap/etc.).">> ELSE <<>>)
    \o (IF ~roles.hasBigSpell THEN <<"No big spell (Fireball/Poison/etc.).">> ELSE <<>>)
    \o (IF roles.cheapCycleCount < 2 THEN <<"Consider 1-2 cheap cycle cards.">> ELSE <<>>)
    \o (IF ~roles.hasSplash THEN <<"Little splash vs swarms.">> ELSE <<>>)
    \o (IF Geq(avg, 45) /\ archetype # "Beatdown"
        THEN <<"High elixir for non-beatdown.">> ELSE <<>>)

analyzeDeck(reg, cards) ==
    LET names == Map(normalize, cards)
        costs == Map(LAMBDA c : CostOr(reg, c, 4), names)
        avgElixir == RoundedAvg10(SumSeq(costs), Len(costs))
        roles ==
            [hasBigSpell     |-> Some(names, LAMBDA c : c \in reg.ROLE.bigSpell),
             hasSmallSpell   |-> Some(names, LAMBDA c : c \in reg.ROLE.smallSpell),
             hasBuilding     |-> Some(names, LAMBDA c : c \in reg.ROLE.building),
             hasAirTargeting |-> Some(names, LAMBDA c : c \in reg.ROLE.airTarget),
             hasSplash       |-> Some(names, LAMBDA c : c \in reg.ROLE.splash),
             hasReset        |-> Some(names, LAMBDA c : c \in reg.ROLE.reset),
             cheapCycleCount |-> Count(names, LAMBDA c : CostOr(reg, c, 99) <= 2),
             winCons         |-> Filter(names, LAMBDA c : c \in reg.ROLE.winCon)]
        archetype == classifyArchetype(names, avgElixir, roles)
    IN  [kind |-> "analysis", avgElixir |-> avgElixir, roles |-> roles,
         archetype |-> archetype,
         notes |-> DeckNotes(roles, avgElixir, archetype)]

(***************************************************************************)
(* The feature builder (roles.ts, second part).  The average elixir of a   *)
(* feature vector is rounded to two decimals and kept times 100.           *)
(***************************************************************************)
WINCONS ==
    <<"Hog Rider", "X-Bow", "Mortar", "Royal Giant", "Lava Hound", "Balloon",
      "Giant", "Golem", "Miner", "Goblin Drill", "Graveyard", "Ram Rider",
      "Royal Hogs", "Wall Breakers", "Battle Ram", "Goblin Barrel">>

Bit(b) == IF b THEN 1 ELSE 0
Max(a, b) == IF a >= b THEN a ELSE b
Min(a, b) == IF a <= b THEN a ELSE b

deckWinconOneHot(d) ==
    LET names == Map(normalize, d)
    IN  [i \in DOMAIN WINCONS |->
            Bit(\E j \in DOMAIN names : names[j] = Card(WINCONS[i]))]

archetypeOneHot(a) == [i \in DOMAIN ARCHES |-> Bit(ARCHES[i] = a)]

has(set, d) == Bit(\E i \in DOMAIN d : d[i] \in set)

\* +(sum / Math.max(1, n)).toFixed(2), times 100 (exact for n below 40)
avgElixir(reg, d) ==
    LET names == Map(normalize, d)
        costs == Map(LAMBDA n : CostOr(reg, n, 4), names)
        n == Max(1, Len(costs))
    IN  (200 * SumSeq(costs) + n) \div (2 * n)

\* A mutant: the crown differential is not clamped.
buildFeaturesUnclamped(reg, d, oppArch, crownDiff) ==
    <<1,
      avgElixir(reg, d),
      has(reg.ROLE.bigSpell, d),
      has(reg.ROLE.smallSpell, d),
      has(reg.ROLE.building, d),
      has(reg.ROLE.airTarget, d),
      has(reg.ROLE.splash, d),
      has(reg.ROLE.reset, d),
      has(reg.ROLE.champion, d)>>
    \o deckWinconOneHot(d)
    \o archetypeOneHot(oppArch)
    \o <<crownDiff>>

buildFeatures(reg, d, oppArch, crownDiff) ==
    <<1,
      avgElixir(reg, d),
      has(reg.ROLE.bigSpell, d),
      has(reg.ROLE.smallSpell, d),
      has(reg.ROLE.building, d),
      has(reg.ROLE.airTarget, d),
      has(reg.ROLE.splash, d),
      has(reg.ROLE.reset, d),
      has(reg.ROLE.champion, d)>>
    \o deckWinconOneHot(d)
    \o archetypeOneHot(oppArch)
    \o <<Max(-3, Min(3, crownDiff))>>

(***************************************************************************)
(* The trainer.  A battle is [team, opponent]; a side is Null (absent) or  *)
(* [cards, crowns], each of them Null when the field is absent.            *)
(*                                                                         *)
(* trainLogReg computes its weights by 200 passes of gradient descent on   *)
(* IEEE doubles, which integers cannot follow: the weight vector is one of *)
(* the outcomes of Runs, each a vector of finite numbers (the features     *)
(* are bounded, so no weight overflows), kept in units of 1e-6.            *)
(***************************************************************************)
MIN_EXAMPLES == 10
BATTLE_LIMIT == 50
Runs == {1, 2}

Side(cards, crowns) == [kind |-> "side", cards |-> cards, crowns |-> crowns]
Battle(me, opp) == [team |-> me, opponent |-> opp]

List(items) == [kind |-> "list", items |-> items]
N(n) == [kind |-> "num", v |-> n]
IsNull(x) == x.kind = "null"

\* x ?? dflt, for a number x
OrElse(x, dflt) == IF IsNull(x) THEN dflt ELSE x.v

\* (data as any[]).slice(0, limit)
getBattlelog(data, limit) == SubSeq(data, 1, Min(limit, Len(data)))

trainLogReg(examples, run) ==
    IF Len(examples) = 0 THEN [w |-> <<>>, dims |-> 0]
    ELSE LET dims == Len(examples[1].x)
         IN  [w |-> [j \in 1..dims |-> 1000 * run - 40 * j], dims |-> dims]

\* !me?.cards || !opp?.cards
SkipBattle(me, opp) ==
    \/ IsNull(me) \/ IsNull(me.cards)
    \/ IsNull(opp) \/ IsNull(opp.cards)

\* The loop of trainWinProbModel over battles[1..n]: its examples and its
\* histogram of opponent archetypes.
\* One turn of the loop for a battle that is not skipped: the opponent's
\* archetype is counted and an example is pushed.
AddExample(reg, before, me, opp, oppArch) ==
    [ex |-> Append(before.ex,
                   [x |-> buildFeatures(reg, me.cards.items, oppArch,
                                        OrElse(me.crowns, 0) - OrElse(opp.crowns, 0)),
                    y |-> Bit(OrElse(me.crowns, 0) > OrElse(opp.crowns, 0))]),
     dist |-> [a \in DOMAIN before.dist \cup {oppArch} |->
                  IF a \in DOMAIN before.dist
                  THEN before.dist[a] + Bit(a = oppArch)
                  ELSE 1]]

\* The loop over the first n battles: the examples and the histogram.
RECURSIVE TrainingPass(_, _, _)
TrainingPass(reg, bs, n) ==
    IF n = 0 THEN [ex |-> <<>>, dist |-> <<>>]
    ELSE IF SkipBattle(bs[n].team, bs[n].opponent)
    THEN TrainingPass(reg, bs, n - 1)
    ELSE AddExample(reg, TrainingPass(reg, bs, n - 1), bs[n].team, bs[n].opponent,
                    analyzeDeck(reg, bs[n].opponent.cards.items).archetype)

RECURSIVE GCD(_, _)
GCD(a, b) == IF b = 0 THEN a ELSE GCD(b, a % b)

\* The double c / t, kept as the fraction in lowest terms.
Quotient(c, t) == LET g == GCD(c, t) IN [num |-> c \div g, den |-> t \div g]

RECURSIVE SumOver(_, _)
SumOver(f, keys) ==
    IF keys = {} THEN 0
    ELSE LET k == CHOOSE k \in keys : TRUE IN f[k] + SumOver(f, keys \ {k})

\* The histogram divided by its total (1 when the total is 0).
NormalizeDist(dist) ==
    LET sum == SumOver(dist, DOMAIN dist)
        total == IF sum = 0 THEN 1 ELSE sum
    IN  [a \in {ARCHES[i] : i \in DOMAIN ARCHES} |->
            Quotient(IF a \in DOMAIN dist THEN dist[a] ELSE 0, total)]

\* A mutant: training starts at 9 examples.
GuardAndFitFrom9(ex, oppDist, fit) ==
    IF Len(ex) < MIN_EXAMPLES - 1
    THEN [kind |-> "trained", model |-> Null, oppDist |-> oppDist,
          samples |-> Len(ex)]
    ELSE [kind |-> "trained",
          model |-> [kind |-> "model", w |-> fit.w, dims |-> fit.dims,
                     feat |-> "buildFeatures(d, a, 0)"],
          oppDist |-> oppDist, samples |-> Len(ex)]

\* The guard on the number of examples, and the model fitted to them.
GuardAndFit(ex, oppDist, fit) ==
    IF Len(ex) < MIN_EXAMPLES
    THEN [kind |-> "trained", model |-> Null, oppDist |-> oppDist,
          samples |-> Len(ex)]
    ELSE [kind |-> "trained",
          model |-> [kind |-> "model", w |-> fit.w, dims |-> fit.dims,
                     feat |-> "buildFeatures(d, a, 0)"],
          oppDist |-> oppDist, samples |-> Len(ex)]

Finish(pass, run) ==
    GuardAndFit(pass.ex, NormalizeDist(pass.dist), trainLogReg(pass.ex, run))

\* trainWinProbModel, from the battle log it fetched.
trainWinProbModel(reg, bs, run) == Finish(TrainingPass(reg, bs, Len(bs)), run)

(***************************************************************************)
(* The model cache (roles.ts, end).  A player tag is a sequence of         *)
(* characters.  A file of data/models is absent, or holds text that does   *)
(* not parse, or holds the text of a JSON value, kept as the value's tree. *)
(***************************************************************************)
MODEL_VERSION == 1

UpperCase ==
    [ch \in {"a", "b", "A", "B", "2", "_", "-", "#", "/"} |->
        CASE ch = "a" -> "A" [] ch = "b" -> "B" [] OTHER -> ch]
SafeChar(ch) == ch \in {"a", "b", "A", "B", "2", "_", "-"}

\* s.replace(/[^A-Za-z0-9_-]+/g, "_")
RECURSIVE ReplaceUnsafeRuns(_)
ReplaceUnsafeRuns(s) ==
    IF s = <<>> THEN <<>>
    ELSE IF SafeChar(s[1]) THEN <<s[1]>> \o ReplaceUnsafeRuns(Tail(s))
    ELSE IF Len(s) > 1 /\ ~SafeChar(s[2]) THEN ReplaceUnsafeRuns(Tail(s))
    ELSE <<"_">> \o ReplaceUnsafeRuns(Tail(s))

safeTag(tag) ==
    LET noHash == IF tag # <<>> /\ tag[1] = "#" THEN Tail(tag) ELSE tag
    IN  Map(LAMBDA ch : UpperCase[ch], ReplaceUnsafeRuns(noHash))

\* The file name of a tag's record, within data/models.
modelPath(tag) == safeTag(tag) \o <<".json">>

Absent == [kind |-> "absent"]
Garbage == [kind |-> "garbage"]
Text(tree) == [kind |-> "text", json |-> tree]

JNum(x) == [t |-> "number", v |-> x]
JStr(x) == [t |-> "string", v |-> x]
JArr(items) == [t |-> "array", items |-> items]
JObj(pairs) == [t |-> "object", pairs |-> pairs]

\* A mutant: weights are written with three decimals.
JsonStringifyRounded(payload) ==
    JObj(<< <<"tag", JStr(payload.tag)>>,
            <<"version", JNum(payload.version)>>,
            <<"trainedAt", JStr(payload.trainedAt)>>,
            <<"samples", JNum(payload.samples)>>,
            <<"dims", JNum(payload.dims)>>,
            <<"w", JArr(Map(LAMBDA x : JNum((x \div 1000) * 1000), payload.w))>>,
            <<"oppDist",
              JObj([i \in DOMAIN ARCHES |->
                      <<ARCHES[i], JNum(payload.oppDist[ARCHES[i]])>>])>> >>)

\* JSON.stringify(payload, null, 2): every number of a payload is finite,
\* so each is written as a number that reads back as itself.
JsonStringify(payload) ==
    JObj(<< <<"tag", JStr(payload.tag)>>,
            <<"version", JNum(payload.version)>>,
            <<"trainedAt", JStr(payload.trainedAt)>>,
            <<"samples", JNum(payload.samples)>>,
            <<"dims", JNum(payload.dims)>>,
            <<"w", JArr(Map(JNum, payload.w))>>,
            <<"oppDist",
              JObj([i \in DOMAIN ARCHES |->
                      <<ARCHES[i], JNum(payload.oppDist[ARCHES[i]])>>])>> >>)

\* JSON.parse(raw)
RECURSIVE JsonParse(_)
JsonParse(tree) ==
    CASE tree.t = "number" -> tree.v
      [] tree.t = "string" -> tree.v
      [] tree.t = "array"  -> [i \in DOMAIN tree.items |-> JsonParse(tree.items[i])]
      [] tree.t = "object" ->
            [k \in {tree.pairs[i][1] : i \in DOMAIN tree.pairs} |->
                LET last == CHOOSE i \in DOMAIN tree.pairs :
                                /\ tree.pairs[i][1] = k
                                /\ \A j \in DOMAIN tree.pairs :
                                       tree.pairs[j][1] = k => j <= i
                IN  JsonParse(tree.pairs[last][2])]

\* A mutant: the version of the record is not looked at.
loadCachedAnyVersion(files, tag) ==
    LET f == files[modelPath(tag)]
    IN  IF f.kind # "text" THEN Null
        ELSE [kind |-> "payload", obj |-> JsonParse(f.json)]

\* A mutant: the record is never found.
loadCachedNever(files, tag) == Null

\* loadCached: Null when the read or the parse throws, or on another version.
loadCached(files, tag) ==
    LET f == files[modelPath(tag)]
    IN  IF f.kind # "text" THEN Null
        ELSE LET obj == JsonParse(f.json)
             IN  IF "version" \notin DOMAIN obj \/ obj.version # MODEL_VERSION
                 THEN Null
                 ELSE [kind |-> "payload", obj |-> obj]

\* A mutant: an existing record is patched with the new weights and count.
saveCachedPatching(files, tag, payload) ==
    LET f == files[modelPath(tag)]
        old == IF f.kind = "text" THEN JsonParse(f.json) ELSE payload
    IN  [files EXCEPT ![modelPath(tag)] =
            Text(JsonStringify([old EXCEPT !.w = payload.w,
                                           !.samples = payload.samples,
                                           !.trainedAt = payload.trainedAt,
                                           !.version = payload.version]))]

\* saveCached: the files after writeFileSync.
saveCached(files, tag, payload) ==
    [files EXCEPT ![modelPath(tag)] = Text(JsonStringify(payload))]

(***************************************************************************)
(* Decks.  analyzeDeck reads its deck only through some/filter/reduce, so  *)
(* decks are enumerated with their cards in the order of DeckCards.        *)
(***************************************************************************)
DeckCards ==
    <<Card("Mortar"), Card("Golem"), Card("Goblin Gang"),
      Variant("Princess", "Evolution"), Card("Hog Rider"), Card("Bandit"),
      Card("Miner"), Card("Skeletons"), Card("Berserker")>>

IndexOf(c) == CHOOSE i \in DOMAIN DeckCards : DeckCards[i] = c

Calls == 1..NCalls

IdleCalls ==
    /\ store = <<>>
    /\ pc = [c \in Calls |-> "idle"]
    /\ arg = [c \in Calls |-> Null]
    /\ local = [c \in Calls |-> Null]
    /\ result = [c \in Calls |-> Null]
    /\ lastSaved = <<>>
    /\ store0 = <<>>

InitDeck ==
    /\ file \in RolesFiles
    /\ deck = <<>>
    /\ analysis = Null
    /\ battles = <<>>
    /\ trained = Null
    /\ IdleCalls

AddCard(i) ==
    /\ analysis = Null
    /\ Len(deck) < MaxDeckLen
    /\ deck # <<>> => i >= IndexOf(deck[Len(deck)])
    /\ deck' = Append(deck, DeckCards[i])
    /\ UNCHANGED <<file, analysis, battles, trained, store, pc, arg, local,
                   result, lastSaved, store0>>

Analyze ==
    /\ analysis = Null
    /\ analysis' = analyzeDeck(Registry(file), deck)
    /\ UNCHANGED <<file, deck, battles, trained, store, pc, arg, local,
                   result, lastSaved, store0>>

NextDeck ==
    \/ \E i \in DOMAIN DeckCards : AddCard(i)
    \/ Analyze

SpecDeck == InitDeck /\ [][NextDeck]_vars

(***************************************************************************)
(* Claims about the classifier.                                            *)
(***************************************************************************)
Has(names, set) == \E i \in DOMAIN names : names[i] \in set
HowMany(names, set) == Cardinality({i \in DOMAIN names : names[i] \in set})

\* The rules of the classifier, in order, as the specification lists them.
RuleHolds(r, names, avg) ==
    CASE r = 1 -> Has(names, SiegeCards)
      [] r = 2 -> Has(names, BeatdownCards) /\ ~avg.nan /\ avg.x >= 41
      [] r = 3 -> HowMany(names, BaitCore) >= 2
      [] r = 4 -> Has(names, CycleCards) /\ ~avg.nan /\ avg.x <= 32
      [] r = 5 -> HowMany(names, BridgeSpamCore) >= 2
      [] r = 6 -> Has(names, ControlCards)
      [] r = 7 -> TRUE
RuleArchetype ==
    <<"Siege", "Beatdown", "Bait", "Cycle", "Bridge Spam", "Control",
      "Hybrid/Other">>
FirstRule(names, avg) ==
    LET holds == {r \in 1..7 : RuleHolds(r, names, avg)}
    IN  CHOOSE r \in holds : \A q \in holds : r <= q

\* C1: every deck gets exactly one of the 7 archetypes, the one of the first
\* rule (a)..(g) that matches its stripped names and its rounded average; a
\* deck with a siege unit and a beatdown win-condition is Siege.
C1_FirstMatch ==
    analysis # Null =>
        LET names == Map(normalize, deck) IN
        /\ analysis.archetype \in {ARCHES[i] : i \in DOMAIN ARCHES}
        /\ analysis.archetype = RuleArchetype[FirstRule(names, analysis.avgElixir)]
        /\ Has(names, SiegeCards) /\ Has(names, BeatdownCards)
               => analysis.archetype = "Siege"

\* A siege unit and a beatdown win-condition at 4.1 or more: rule (b) matches
\* too, and the deck is Siege.
C1_Witness ==
    /\ analysis # Null
    /\ Has(Map(normalize, deck), SiegeCards)
    /\ Has(Map(normalize, deck), BeatdownCards)
    /\ Geq(analysis.avgElixir, 41)
    /\ analysis.archetype = "Siege"

IsKnown(n) == n \in DOMAIN COST(file)
C2_Pre(names) ==
    /\ Len(deck) = 8
    /\ \A i \in DOMAIN names : IsKnown(names[i])
    /\ \A k \in RoleNames : ~Has(names, ROLE(file)[k])
    /\ ~Geq(analysis.avgElixir, 41)
    /\ ~Has(names, BeatdownCards)
    /\ ~Has(names, CycleCards)
    /\ ~Has(names, SiegeCards)

\* C2 as stated: 8 known cards, no role match, average below 4.1 and no
\* beatdown, cycle or siege win-condition give Hybrid/Other.
C2_Original ==
    (analysis # Null /\ Len(deck) = 8) =>
        LET names == Map(normalize, deck) IN
        C2_Pre(names) => analysis.archetype = "Hybrid/Other"

\* C2 as amended: 8 known cards, no role match, average below 4.1, no
\* beatdown, cycle or siege win-condition, and besides fewer than 2 bait-core
\* cards, fewer than 2 bridge-spam-core cards and no control win-condition
\* give Hybrid/Other.
C2_Amended ==
    (analysis # Null /\ Len(deck) = 8) =>
        LET names == Map(normalize, deck) IN
        (/\ C2_Pre(names)
         /\ HowMany(names, BaitCore) < 2
         /\ HowMany(names, BridgeSpamCore) < 2
         /\ ~Has(names, ControlCards)) => analysis.archetype = "Hybrid/Other"

C2_Witness ==
    /\ analysis # Null
    /\ C2_Pre(Map(normalize, deck))
    /\ HowMany(Map(normalize, deck), BaitCore) = 1
    /\ HowMany(Map(normalize, deck), BridgeSpamCore) = 1
    /\ analysis.archetype = "Hybrid/Other"

(***************************************************************************)
(* Battle logs.  The kinds of battle a log is made of; a log lists them in *)
(* the order of BattleKinds.                                               *)
(***************************************************************************)
HogDeck == List(<<Card("Hog Rider"), Card("Zap"), Card("Skeletons")>>)
EvoDeck == List(<<Variant("Princess", "Evolution"), Card("Miner")>>)
SiegeDeck == List(<<Card("Mortar"), Card("Golem"), Card("Fireball")>>)
BaitDeck == List(<<Card("Goblin Gang"), Variant("Princess", "Evolution")>>)
OtherDeck == List(<<Card("Musketeer"), Card("Berserker")>>)

BattleKinds ==
    <<Battle(Side(HogDeck, N(3)), Side(SiegeDeck, N(1))),
      Battle(Side(Null, N(1)), Side(BaitDeck, N(2))),
      Battle(Side(HogDeck, Null), Side(BaitDeck, N(1))),
      Battle(Side(EvoDeck, N(0)), Null),
      Battle(Side(EvoDeck, N(1)), Side(OtherDeck, N(1)))>>

KindOf(b) == CHOOSE k \in DOMAIN BattleKinds : BattleKinds[k] = b

InitTrain ==
    /\ file \in {Null, BuiltFile}
    /\ deck = <<>>
    /\ analysis = Null
    /\ battles = <<>>
    /\ trained = Null
    /\ IdleCalls

AddBattle(k) ==
    /\ trained = Null
    /\ Len(battles) < MaxBattles
    /\ battles # <<>> => k >= KindOf(battles[Len(battles)])
    /\ battles' = Append(battles, BattleKinds[k])
    /\ UNCHANGED <<file, deck, analysis, trained, store, pc, arg, local,
                   result, lastSaved, store0>>

Train(run) ==
    /\ trained = Null
    /\ trained' = trainWinProbModel(Registry(file),
                                  getBattlelog(battles, BATTLE_LIMIT), run)
    /\ UNCHANGED <<file, deck, analysis, battles, store, pc, arg, local,
                   result, lastSaved, store0>>

NextTrain ==
    \/ \E k \in DOMAIN BattleKinds : AddBattle(k)
    \/ \E run \in Runs : Train(run)

SpecTrain == InitTrain /\ [][NextTrain]_vars

(***************************************************************************)
(* Calls of getOrTrainWinProbModel.  A call runs from its start to the     *)
(* await of trainWinProbModel (Call); the battle log arrives and the       *)
(* trainer runs to its end (BattlelogArrives) or the request fails         *)
(* (BattlelogFails); the call resumes after the await (Resume); its        *)
(* caller takes the outcome (Return).                                      *)
(***************************************************************************)
\* The player of the calls: "#a//2", whose file is A_2.json.
Tags == {<<"#", "a", "/", "/", "2">>}
Paths == {modelPath(t) : t \in Tags}
Times == {"2025-06-01T10:00:00.000Z"}

Repeat(b, n) == [i \in 1..n |-> b]

\* The battle logs the API answers with.
FetchLogs ==
    { Repeat(BattleKinds[1], 9),
      Repeat(BattleKinds[1], 6) \o <<BattleKinds[2], BattleKinds[3]>>
          \o Repeat(BattleKinds[5], 3) }

\* Records found in data/models when the process starts.
PriorPayload(version, dims) ==
    [tag |-> <<"A", "_", "2">>, version |-> version,
     trainedAt |-> "2025-01-01T00:00:00.000Z", samples |-> 20, dims |-> dims,
     w |-> [j \in 1..dims |-> 5 * j],
     oppDist |-> [a \in {ARCHES[i] : i \in DOMAIN ARCHES} |->
                     Quotient(Bit(a = "Cycle"), 1)]]
PriorFiles ==
    {Absent, Garbage,
     Text(JsonStringify(PriorPayload(MODEL_VERSION - 1, 2))),
     Text(JsonStringify(PriorPayload(MODEL_VERSION, 33)))}

\* What trainWinProbModel returns in a process loaded from file f when the
\* API answers with data, per outcome of the gradient descent.
Trained ==
    [f \in {BuiltFile}, data \in FetchLogs, run \in Runs |->
        trainWinProbModel(Registry(f), getBattlelog(data, BATTLE_LIMIT), run)]

Init ==
    /\ file = BuiltFile
    /\ deck = <<>>
    /\ analysis = Null
    /\ battles = <<>>
    /\ trained = Null
    /\ store \in [Paths -> PriorFiles]
    /\ store0 = store
    /\ pc = [c \in Calls |-> "idle"]
    /\ arg = [c \in Calls |-> Null]
    /\ local = [c \in Calls |-> Null]
    /\ result = [c \in Calls |-> Null]
    /\ lastSaved = [p \in Paths |-> Null]

Call(c, tag, force) ==
    /\ pc[c] = "idle"
    /\ arg' = [arg EXCEPT ![c] = [kind |-> "args", tag |-> tag, force |-> force]]
    /\ LET cached == IF ~force THEN loadCached(store, tag) ELSE Null
       IN  IF cached # Null
           THEN /\ result' =
                       [result EXCEPT ![c] =
                           [kind |-> "result",
                            model |-> [kind |-> "model", w |-> cached.obj.w,
                                       dims |-> cached.obj.dims,
                                       feat |-> "buildFeatures(d, a, 0)"],
                            oppDist |-> cached.obj.oppDist,
                            samples |-> cached.obj.samples,
                            fromCache |-> TRUE]]
                /\ pc' = [pc EXCEPT ![c] = "done"]
           ELSE /\ pc' = [pc EXCEPT ![c] = "fetching"]
                /\ UNCHANGED result
    /\ UNCHANGED <<file, deck, analysis, battles, trained, store, local,
                   lastSaved, store0>>

BattlelogArrives(c, data, run) ==
    /\ pc[c] = "fetching"
    /\ local' = [local EXCEPT ![c] = Trained[file, data, run]]
    /\ pc' = [pc EXCEPT ![c] = "trained"]
    /\ UNCHANGED <<file, deck, analysis, battles, trained, store, arg, result,
                   lastSaved, store0>>

BattlelogFails(c) ==
    /\ pc[c] = "fetching"
    /\ pc' = [pc EXCEPT ![c] = "failed"]
    /\ arg' = [arg EXCEPT ![c] = Null]
    /\ UNCHANGED <<file, deck, analysis, battles, trained, store, local,
                   result, lastSaved, store0>>

Returned(t) ==
    [kind |-> "result", model |-> t.model, oppDist |-> t.oppDist,
     samples |-> t.samples, fromCache |-> FALSE]

Payload(tag, t, now) ==
    [tag |-> safeTag(tag), version |-> MODEL_VERSION, trainedAt |-> now,
     samples |-> t.samples, dims |-> t.model.dims, w |-> t.model.w,
     oppDist |-> t.oppDist]

\* A mutant: a result without a model is written too, as an empty model.
ResumeAlwaysWriting(c, now) ==
    /\ pc[c] = "trained"
    /\ LET model == IF local[c].model # Null THEN local[c].model
                    ELSE [kind |-> "model", w |-> <<>>, dims |-> 0,
                          feat |-> "buildFeatures(d, a, 0)"]
           payload == Payload(arg[c].tag, [local[c] EXCEPT !.model = model], now)
       IN  /\ store' = saveCached(store, arg[c].tag, payload)
           /\ lastSaved' =
                  [lastSaved EXCEPT ![modelPath(arg[c].tag)] =
                      [kind |-> "saved", payload |-> payload,
                       returned |-> Returned(local[c])]]
    /\ result' = [result EXCEPT ![c] = Returned(local[c])]
    /\ local' = [local EXCEPT ![c] = Null]
    /\ pc' = [pc EXCEPT ![c] = "done"]
    /\ UNCHANGED <<file, deck, analysis, battles, trained, arg, store0>>

Resume(c, now) ==
    /\ pc[c] = "trained"
    /\ IF local[c].model # Null
       THEN LET payload == Payload(arg[c].tag, local[c], now)
            IN  /\ store' = saveCached(store, arg[c].tag, payload)
                /\ lastSaved' =
                       [lastSaved EXCEPT ![modelPath(arg[c].tag)] =
                           [kind |-> "saved", payload |-> payload,
                            returned |-> Returned(local[c])]]
       ELSE UNCHANGED <<store, lastSaved>>
    /\ result' = [result EXCEPT ![c] = Returned(local[c])]
    /\ local' = [local EXCEPT ![c] = Null]
    /\ pc' = [pc EXCEPT ![c] = "done"]
    /\ UNCHANGED <<file, deck, analysis, battles, trained, arg, store0>>

Return(c) ==
    /\ pc[c] \in {"done", "failed"}
    /\ pc' = [pc EXCEPT ![c] = "idle"]
    /\ arg' = [arg EXCEPT ![c] = Null]
    /\ local' = [local EXCEPT ![c] = Null]
    /\ result' = [result EXCEPT ![c] = Null]
    /\ UNCHANGED <<file, deck, analysis, battles, trained, store, lastSaved,
                   store0>>

Next ==
    \/ \E c \in Calls, tag \in Tags, force \in BOOLEAN : Call(c, tag, force)
    \/ \E c \in Calls, data \in FetchLogs, run \in Runs :
           BattlelogArrives(c, data, run)
    \/ \E c \in Calls : BattlelogFails(c)
    \/ \E c \in Calls, now \in Times : Resume(c, now)
    \/ \E c \in Calls : Return(c)

Spec == Init /\ [][Next]_vars

(***************************************************************************)
(* Claims about the trainer.                                               *)
(***************************************************************************)
HasCards(side) == ~IsNull(side) /\ ~IsNull(side.cards)
HasCrowns(side) == ~IsNull(side) /\ ~IsNull(side.crowns)
ArchSet == {ARCHES[i] : i \in DOMAIN ARCHES}

\* The battles with a card list on both sides (section 4.4: usable).
Usable ==
    {i \in DOMAIN battles :
        HasCards(battles[i].team) /\ HasCards(battles[i].opponent)}
FeatureLength == Len(buildFeatures(Registry(file), <<>>, ARCHES[1], 0))

\* C8: the model is null exactly when fewer than 10 battles are usable;
\* otherwise its dims and its weight vector have the length of a feature
\* vector; either way the 7-entry opponent distribution and the number of
\* usable battles come back.
C8_Boundary ==
    trained # Null =>
        /\ (trained.model = Null) <=> (Cardinality(Usable) < 10)
        /\ trained.samples = Cardinality(Usable)
        /\ DOMAIN trained.oppDist = ArchSet
        /\ trained.model # Null =>
              /\ trained.model.dims = FeatureLength
              /\ Len(trained.model.w) = FeatureLength

\* Exactly 10 usable battles among more: a model is trained.
C8_Witness ==
    /\ trained # Null
    /\ Cardinality(Usable) = 10
    /\ Len(battles) > 10
    /\ trained.model # Null
    /\ trained.samples = 10

\* The battles with cards and crowns on both sides, in order.
Complete ==
    SelectSeq(battles,
              LAMBDA b : /\ HasCards(b.team) /\ HasCards(b.opponent)
                         /\ HasCrowns(b.team) /\ HasCrowns(b.opponent))

\* C9 as stated: a battle with cards or crowns missing on a side gives no
\* example and no histogram count; every other battle gives one example,
\* labelled 1 iff the player's crowns exceed the opponent's.
C9_Original ==
    trained # Null =>
        LET pass == TrainingPass(Registry(file), battles, Len(battles)) IN
        /\ Len(pass.ex) = Len(Complete)
        /\ SumOver(pass.dist, DOMAIN pass.dist) = Len(Complete)
        /\ \A i \in DOMAIN pass.ex :
              i <= Len(Complete) =>
                  pass.ex[i].y =
                      Bit(Complete[i].team.crowns.v > Complete[i].opponent.crowns.v)

\* The battles whose opponent has a card list.
WithOppDeck == {i \in DOMAIN battles : HasCards(battles[i].opponent)}
OppArchOf(i) == analyzeDeck(Registry(file), battles[i].opponent.cards.items).archetype

\* C10 as stated: each archetype's share is its count among all the battles
\* with an opponent card list, over the number of such battles.
C10_Original ==
    (trained # Null /\ WithOppDeck # {}) =>
        \A a \in ArchSet :
            trained.oppDist[a] =
                Quotient(Cardinality({i \in WithOppDeck : OppArchOf(i) = a}),
                         Cardinality(WithOppDeck))

(***************************************************************************)
(* Claims about the model cache.                                           *)
(***************************************************************************)
\* The record a file holds, when it parses and is of the current version.
ValidRecord(f) ==
    /\ f.kind = "text"
    /\ "version" \in DOMAIN JsonParse(f.json)
    /\ JsonParse(f.json).version = MODEL_VERSION

Starts(c) == pc[c] = "idle" /\ pc'[c] # "idle"
Resumes(c) == pc[c] = "trained" /\ pc'[c] # "trained"
FileOf(c) == store[modelPath(arg'[c].tag)]

\* C3: a non-forced call that finds a record of the current version returns
\* the record's weights, dims, distribution and count with fromCache = true,
\* at once (no battle log is asked for), and leaves every file as it was.
C3_CacheHit ==
    [][\A c \in Calls :
          (Starts(c) /\ ~arg'[c].force /\ ValidRecord(FileOf(c))) =>
              LET rec == JsonParse(FileOf(c).json) IN
              /\ pc'[c] = "done"
              /\ result'[c].fromCache = TRUE
              /\ result'[c].model.w = rec.w
              /\ result'[c].model.dims = rec.dims
              /\ result'[c].oppDist = rec.oppDist
              /\ result'[c].samples = rec.samples
              /\ local'[c] = Null
              /\ store' = store]_vars

\* A call answered from a record that was there before any call.
C3_Witness ==
    \E c \in Calls :
        /\ pc[c] = "done"
        /\ ~arg[c].force
        /\ result[c].fromCache
        /\ ValidRecord(store0[modelPath(arg[c].tag)])
        /\ result[c].model.w = JsonParse(store0[modelPath(arg[c].tag)].json).w
        /\ store = store0

TrainerResults == {Trained[x] : x \in DOMAIN Trained}

\* C4: a call that is forced, or finds no record, an unparseable one or one
\* of another version, asks for the battle log without failing; what the
\* trainer then returns is a result of the trainer alone; and when it holds
\* a model, resuming writes exactly the new payload over the player's file
\* and returns the trainer's result with fromCache = false.
C4_Retrain ==
    [][\A c \in Calls :
          /\ (Starts(c) /\ (arg'[c].force \/ ~ValidRecord(FileOf(c)))) =>
                /\ pc'[c] = "fetching"
                /\ result'[c] = Null
                /\ store' = store
          /\ (pc[c] = "fetching" /\ pc'[c] = "trained") =>
                local'[c] \in TrainerResults
          /\ (Resumes(c) /\ local[c].model # Null) =>
                /\ pc'[c] = "done"
                /\ \E now \in Times :
                      store'[modelPath(arg[c].tag)] =
                          Text(JsonStringify(
                              [tag |-> safeTag(arg[c].tag),
                               version |-> MODEL_VERSION,
                               trainedAt |-> now,
                               samples |-> local[c].samples,
                               dims |-> local[c].model.dims,
                               w |-> local[c].model.w,
                               oppDist |-> local[c].oppDist]))
                /\ result'[c].model = local[c].model
                /\ result'[c].oppDist = local[c].oppDist
                /\ result'[c].samples = local[c].samples
                /\ result'[c].fromCache = FALSE]_vars

\* A non-forced call found a record of another version, trained, and its
\* payload replaced that record.
C4_Witness ==
    \E c \in Calls :
        /\ pc[c] = "done"
        /\ ~arg[c].force
        /\ ~result[c].fromCache
        /\ result[c].model # Null
        /\ store0[modelPath(arg[c].tag)].kind = "text"
        /\ ~ValidRecord(store0[modelPath(arg[c].tag)])
        /\ ValidRecord(store[modelPath(arg[c].tag)])
        /\ JsonParse(store[modelPath(arg[c].tag)].json).w = result[c].model.w

\* C5: a call whose trainer returned no model resumes without writing and
\* returns the trainer's result with fromCache = false; no step other than
\* the resumption of a call that holds a model changes a file.
C5_NoModelNoWrite ==
    [][/\ \A c \in Calls :
             (Resumes(c) /\ local[c].model = Null) =>
                 /\ store' = store
                 /\ pc'[c] = "done"
                 /\ result'[c].model = Null
                 /\ result'[c].oppDist = local[c].oppDist
                 /\ result'[c].samples = local[c].samples
                 /\ result'[c].fromCache = FALSE
       /\ store' # store =>
             \E c \in Calls : Resumes(c) /\ local[c].model # Null]_vars

\* A forced call got no model: the record it bypassed is still there.
C5_Witness ==
    \E c \in Calls :
        /\ pc[c] = "done"
        /\ arg[c].force
        /\ result[c].model = Null
        /\ ~result[c].fromCache
        /\ ValidRecord(store0[modelPath(arg[c].tag)])
        /\ store = store0

\* A record that is whole and of one training run: of the current version,
\* with as many weights as dims, and with the weights, count and distribution
\* of one result of the trainer.
SingleRun(f) ==
    /\ ValidRecord(f)
    /\ LET rec == JsonParse(f.json) IN
       /\ Len(rec.w) = rec.dims
       /\ \E t \in TrainerResults :
             /\ t.model # Null
             /\ rec.w = t.model.w
             /\ rec.dims = t.model.dims
             /\ rec.samples = t.samples
             /\ rec.oppDist = t.oppDist

\* C6: under every interleaving of the calls, a file no call has written is
\* as it was before the calls, and a written file holds exactly the whole
\* payload of the call that wrote it last, a record of one training run;
\* so a file that was absent at first is, in every state, absent or such a
\* record.
C6_WholeRecords ==
    \A p \in Paths :
        /\ IF lastSaved[p] = Null THEN store[p] = store0[p]
           ELSE /\ store[p] = Text(JsonStringify(lastSaved[p].payload))
                /\ SingleRun(store[p])
        /\ store0[p] = Absent => (store[p] = Absent \/ SingleRun(store[p]))

\* Two calls for one file both wrote, one over a record of the other; all
\* calls are over and the file holds the later payload.
C6_Witness ==
    \E c, d \in Calls :
        /\ c # d
        /\ \A e \in Calls : pc[e] \in {"idle", "done"}
        /\ pc[c] = "done" /\ pc[d] = "done"
        /\ result[c].model # Null /\ ~result[c].fromCache
        /\ result[d].model # Null /\ ~result[d].fromCache
        /\ result[c].model.w # result[d].model.w
        /\ modelPath(arg[c].tag) = modelPath(arg[d].tag)
        /\ JsonParse(store[modelPath(arg[c].tag)].json).w = result[d].model.w

Half == [kind |-> "prob", nan |-> FALSE, logit |-> 0]

sigmoid(z) ==
    IF z.nan THEN [kind |-> "prob", nan |-> TRUE, logit |-> 0]
    ELSE [kind |-> "prob", nan |-> FALSE, logit |-> z.x]

\* for (i < w.length) s += w[i]*x[i]: reading x past its end gives undefined,
\* and the sum is NaN.
dot(w, x) ==
    IF Len(w) > Len(x) THEN NaN
    ELSE Num(SumSeq([i \in 1..Len(w) |->
                        w[i] * (IF i = 2 THEN x[i] ELSE 100 * x[i])]))

FeaturesNow(reg, d, oppArch) == buildFeatures(reg, d, oppArch, 0)

Prediction(model, x) ==
    IF Len(x) # model.dims THEN Half ELSE sigmoid(dot(model.w, x))

predictWinProb(reg, model, d, oppArch) ==
    Prediction(model, FeaturesNow(reg, d, oppArch))

\* Model records as a cache file can hold them: dims and the number of
\* weights are each below, at or above the length of a feature vector.
StoredDims == {2, 33, 34}
StoredModels ==
    {[kind |-> "model", dims |-> n, w |-> [j \in 1..k |-> 5 * j],
      feat |-> "buildFeatures(d, a, 0)"] : n \in StoredDims, k \in StoredDims}

PredictDecks ==
    {<<>>} \cup {d.items : d \in {HogDeck, EvoDeck, SiegeDeck, BaitDeck, OtherDeck}}

InitPredict ==
    /\ file = BuiltFile
    /\ deck \in PredictDecks
    /\ analysis = Null
    /\ battles = <<>>
    /\ trained = Null
    /\ store = <<>>
    /\ pc = "idle"
    /\ arg \in {[kind |-> "args", model |-> m, oppArch |-> ARCHES[i]] :
                   m \in StoredModels, i \in DOMAIN ARCHES}
    /\ local = Null
    /\ result = Null
    /\ lastSaved = <<>>
    /\ store0 = <<>>

Predict ==
    /\ pc = "idle"
    /\ result' = predictWinProb(Registry(file), arg.model, deck, arg.oppArch)
    /\ pc' = "done"
    /\ UNCHANGED <<file, deck, analysis, battles, trained, store, arg, local,
                   lastSaved, store0>>

NextPredict == Predict

SpecPredict == InitPredict /\ [][NextPredict]_vars

\* C11 as stated: a record whose dims or whose number of weights differs
\* from the length of the feature vector built now is predicted 0.5.
C11_Original ==
    (/\ pc = "done"
     /\ \/ arg.model.dims # FeatureLength
        \/ Len(arg.model.w) # FeatureLength) =>
        result = Half

(***************************************************************************)
(* generateDeck (logic.ts).  The deck under construction is a JavaScript   *)
(* Set, which keeps insertion order: a sequence without repetition.        *)
(***************************************************************************)
Names(words) == [i \in DOMAIN words |-> Card(words[i])]

POOLS ==
    [a \in {ARCHES[i] : i \in DOMAIN ARCHES} |->
        CASE a = "Cycle" ->
                 [winCons |-> Names(<<"Hog Rider", "Wall Breakers", "Royal Hogs">>),
                  supports |-> Names(<<"Musketeer", "Archers", "Electro Wizard", "Phoenix", "Knight">>),
                  cheapCycle |-> Names(<<"Skeletons", "Ice Spirit", "Fire Spirit", "Ice Golem", "Bats">>),
                  bigSpells |-> Names(<<"Fireball", "Poison">>),
                  smallSpells |-> Names(<<"The Log", "Zap", "Barbarian Barrel", "Earthquake">>),
                  buildings |-> Names(<<"Cannon", "Tesla">>),
                  air |-> Names(<<"Musketeer", "Archers", "Phoenix">>),
                  splash |-> Names(<<"Valkyrie", "Bomb Tower", "Baby Dragon">>)]
          [] a = "Beatdown" ->
                 [winCons |-> Names(<<"Golem", "Giant", "Lava Hound", "Electro Giant">>),
                  supports |-> Names(<<"Baby Dragon", "Mega Minion", "Inferno Dragon", "Night Witch", "Phoenix">>),
                  cheapCycle |-> Names(<<"Skeletons", "Ice Spirit", "Bats">>),
                  bigSpells |-> Names(<<"Lightning", "Fireball", "Poison", "Rocket">>),
                  smallSpells |-> Names(<<"Zap", "Barbarian Barrel", "Arrows">>),
                  buildings |-> Names(<<"Bomb Tower", "Inferno Tower", "Goblin Cage">>),
                  air |-> Names(<<"Mega Minion", "Baby Dragon", "Phoenix">>),
                  splash |-> Names(<<"Baby Dragon", "Bomb Tower", "Valkyrie">>)]
          [] a = "Control" ->
                 [winCons |-> Names(<<"Miner", "Goblin Drill", "Graveyard", "Ram Rider">>),
                  supports |-> Names(<<"Valkyrie", "Electro Wizard", "Phoenix", "Knight", "Baby Dragon">>),
                  cheapCycle |-> Names(<<"Skeletons", "Ice Spirit", "Bats">>),
                  bigSpells |-> Names(<<"Poison", "Fireball", "Rocket">>),
                  smallSpells |-> Names(<<"The Log", "Zap", "Barbarian Barrel", "Arrows", "Tornado">>),
                  buildings |-> Names(<<"Bomb Tower", "Tesla", "Cannon">>),
                  air |-> Names(<<"Musketeer", "Archers", "Phoenix", "Baby Dragon">>),
                  splash |-> Names(<<"Valkyrie", "Bomb Tower", "Baby Dragon">>)]
          [] a = "Siege" ->
                 [winCons |-> Names(<<"X-Bow", "Mortar">>),
                  supports |-> Names(<<"Archers", "Knight", "Tesla", "Ice Golem", "Musketeer">>),
                  cheapCycle |-> Names(<<"Skeletons", "Ice Spirit", "Fire Spirit">>),
                  bigSpells |-> Names(<<"Fireball", "Rocket">>),
                  smallSpells |-> Names(<<"The Log", "Zap", "Barbarian Barrel">>),
                  buildings |-> Names(<<"Tesla", "Cannon", "Bomb Tower">>),
                  air |-> Names(<<"Musketeer", "Archers", "Tesla">>),
                  splash |-> Names(<<"Bomb Tower", "Valkyrie">>)]
          [] a = "Bridge Spam" ->
                 [winCons |-> Names(<<"Ram Rider", "Battle Ram", "Royal Hogs">>),
                  supports |-> Names(<<"Bandit", "Royal Ghost", "Dark Prince", "P.E.K.K.A", "Magic Archer">>),
                  cheapCycle |-> Names(<<"Skeletons", "Ice Spirit", "Bats">>),
                  bigSpells |-> Names(<<"Fireball", "Poison", "Lightning">>),
                  smallSpells |-> Names(<<"The Log", "Zap", "Barbarian Barrel", "Arrows">>),
                  buildings |-> Names(<<"Bomb Tower", "Tesla">>),
                  air |-> Names(<<"Musketeer", "Phoenix", "Archers">>),
                  splash |-> Names(<<"Valkyrie", "Bomb Tower", "Magic Archer">>)]
          [] a = "Bait" ->
                 [winCons |-> Names(<<"Goblin Barrel", "Goblin Drill", "Wall Breakers">>),
                  supports |-> Names(<<"Princess", "Goblin Gang", "Dark Prince", "Knight">>),
                  cheapCycle |-> Names(<<"Skeletons", "Ice Spirit", "Fire Spirit", "Bats">>),
                  bigSpells |-> Names(<<"Rocket", "Fireball">>),
                  smallSpells |-> Names(<<"The Log", "Zap", "Barbarian Barrel">>),
                  buildings |-> Names(<<"Inferno Tower", "Cannon", "Bomb Tower">>),
                  air |-> Names(<<"Musketeer", "Archers", "Princess">>),
                  splash |-> Names(<<"Valkyrie", "Bomb Tower", "Princess">>)]
          [] a = "Hybrid/Other" ->
                 [winCons |-> Names(<<"Royal Giant", "Hog Rider", "Miner">>),
                  supports |-> Names(<<"Musketeer", "Electro Wizard", "Phoenix", "Valkyrie", "Knight">>),
                  cheapCycle |-> Names(<<"Skeletons", "Ice Spirit", "Bats">>),
                  bigSpells |-> Names(<<"Fireball", "Poison", "Rocket">>),
                  smallSpells |-> Names(<<"The Log", "Zap", "Barbarian Barrel", "Earthquake">>),
                  buildings |-> Names(<<"Tesla", "Cannon", "Bomb Tower">>),
                  air |-> Names(<<"Musketeer", "Archers", "Phoenix">>),
                  splash |-> Names(<<"Valkyrie", "Bomb Tower", "Baby Dragon">>)]]

ANY ==
    Names(<<"Skeletons", "Ice Spirit", "Bats", "Knight", "Archers", "Musketeer",
            "Valkyrie", "Phoenix", "Cannon", "Tesla">>)

DECK_SIZE == 8

\* A mutant: a card already in the deck is added again.
addAlways(d, c) == Append(d, c)

\* deck.add(c)
add(d, c) == IF \E i \in DOMAIN d : d[i] = c THEN d ELSE Append(d, c)

\* items.forEach(c => deck.add(c))
RECURSIVE addEach(_, _)
addEach(d, items) ==
    IF items = <<>> THEN d ELSE addEach(add(d, Head(items)), Tail(items))

\* A mutant: the pool is not filtered by ownership.
pickUnowned(pool, allowed, n) == SubSeq(pool, 1, Min(n, Len(pool)))

\* pool.filter(c => allowed.has(c)).slice(0, n)
pick(pool, allowed, n) ==
    LET owned == SelectSeq(pool, LAMBDA c : c \in allowed)
    IN  SubSeq(owned, 1, Min(n, Len(owned)))

\* for (const c of candidates) { if (deck.size >= 8) break; deck.add(c); }
RECURSIVE fill(_, _)
fill(d, candidates) ==
    IF candidates = <<>> \/ Len(d) >= DECK_SIZE THEN d
    ELSE fill(add(d, Head(candidates)), Tail(candidates))

\* for (const c of ANY) { if (deck.size < 8 && allowed.has(c)) deck.add(c); }
RECURSIVE backfill(_, _, _)
backfill(d, any, allowed) ==
    IF any = <<>> THEN d
    ELSE backfill(IF Len(d) < DECK_SIZE /\ Head(any) \in allowed
                  THEN add(d, Head(any)) ELSE d,
                  Tail(any), allowed)

\* A mutant: above 4.0 the deck is filled from the last support card on.
generateDeckSteered(archetype, allowed, targetAvg) ==
    LET P == POOLS[archetype]
        d1 == addEach(<<>>, pick(P.winCons, allowed, 1))
        d2 == addEach(d1, pick(P.smallSpells, allowed, 1))
        d3 == addEach(d2, pick(P.bigSpells, allowed, 1))
        d4 == IF archetype # "Bridge Spam"
              THEN addEach(d3, pick(P.buildings, allowed, 1)) ELSE d3
        d5 == addEach(d4, pick(P.air, allowed, 1))
        d6 == addEach(d5, pick(P.splash, allowed, 1))
        d7 == fill(d6, SelectSeq(IF targetAvg > 40
                                 THEN [i \in DOMAIN P.supports |->
                                          P.supports[Len(P.supports) + 1 - i]]
                                      \o P.cheapCycle
                                 ELSE P.supports \o P.cheapCycle,
                                 LAMBDA c : c \in allowed))
        d8 == backfill(d7, ANY, allowed)
    IN  SubSeq(d8, 1, Min(DECK_SIZE, Len(d8)))

generateDeck(archetype, allowed, targetAvg) ==
    LET P == POOLS[archetype]
        d1 == addEach(<<>>, pick(P.winCons, allowed, 1))
        d2 == addEach(d1, pick(P.smallSpells, allowed, 1))
        d3 == addEach(d2, pick(P.bigSpells, allowed, 1))
        d4 == IF archetype # "Bridge Spam"
              THEN addEach(d3, pick(P.buildings, allowed, 1)) ELSE d3
        d5 == addEach(d4, pick(P.air, allowed, 1))
        d6 == addEach(d5, pick(P.splash, allowed, 1))
        d7 == fill(d6, SelectSeq(P.supports \o P.cheapCycle,
                                 LAMBDA c : c \in allowed))
        d8 == backfill(d7, ANY, allowed)
    IN  SubSeq(d8, 1, Min(DECK_SIZE, Len(d8)))

(***************************************************************************)
(* Calls of generateDeck for one archetype and one ownership set, one per  *)
(* target average (times 10; 30 is the default of the parameter).          *)
(***************************************************************************)
ArchSetOf(seq) == {seq[i] : i \in DOMAIN seq}
PoolNames == {"winCons", "supports", "cheapCycle", "bigSpells", "smallSpells",
              "buildings", "air", "splash"}
PoolCards(a) == UNION {ArchSetOf(POOLS[a][k]) : k \in PoolNames}

\* Every card of a pool or of the fallback list, and a card of none.
Universe ==
    UNION {PoolCards(ARCHES[i]) : i \in DOMAIN ARCHES}
        \cup ArchSetOf(ANY) \cup {Card("Berserker")}

SmallUniverse ==
    ArchSetOf(Names(<<"Hog Rider", "Wall Breakers", "Royal Hogs", "The Log", "Zap",
                      "Earthquake", "Fireball", "Poison", "Skeletons", "Berserker">>))

\* The ownership sets of the calls: a few cards, or all cards but a few.
OwnershipSets ==
    (SUBSET SmallUniverse) \cup {Universe \ s : s \in SUBSET SmallUniverse}

TargetAvgs == {30, 45}

InitGenerate ==
    /\ file = BuiltFile
    /\ deck = <<>>
    /\ analysis = Null
    /\ battles = <<>>
    /\ trained = Null
    /\ store = <<>>
    /\ pc = "idle"
    /\ arg \in {[kind |-> "args", archetype |-> ARCHES[i], allowed |-> o] :
                   i \in DOMAIN ARCHES, o \in OwnershipSets}
    /\ local = Null
    /\ result = [t \in TargetAvgs |-> Null]
    /\ lastSaved = <<>>
    /\ store0 = <<>>

Generate(t) ==
    /\ result[t] = Null
    /\ result' = [result EXCEPT
                     ![t] = List(generateDeck(arg.archetype, arg.allowed, t))]
    /\ UNCHANGED <<file, deck, analysis, battles, trained, store, pc, arg,
                   local, lastSaved, store0>>

NextGenerate == \E t \in TargetAvgs : Generate(t)

SpecGenerate == InitGenerate /\ [][NextGenerate]_vars

(***************************************************************************)
(* Claims about generateDeck.                                              *)
(***************************************************************************)
NoRepeat(d) == \A i, j \in DOMAIN d : d[i] = d[j] => i = j

\* C12: with every card owned, each archetype's deck has exactly 8 cards,
\* no card twice, each from a pool of the archetype or the fallback list.
C12_FullUniverse ==
    \A t \in TargetAvgs :
        (result[t] # Null /\ arg.allowed = Universe) =>
            LET d == result[t].items IN
            /\ Len(d) = 8
            /\ NoRepeat(d)
            /\ ArchSetOf(d) \subseteq PoolCards(arg.archetype) \cup ArchSetOf(ANY)

\* Every card owned, Bridge Spam (the archetype without a building pick).
C12_Witness ==
    /\ arg.allowed = Universe
    /\ arg.archetype = "Bridge Spam"
    /\ \E t \in TargetAvgs : result[t] # Null /\ Len(result[t].items) = 8

OwnedOf(a, allowed) == allowed \cap (PoolCards(a) \cup ArchSetOf(ANY))

\* C19 as stated: at most 8 cards, none twice, all owned, and fewer than 8
\* only when fewer than 8 cards of the pools and the fallback list are owned.
C19_Original ==
    \A t \in TargetAvgs :
        result[t] # Null =>
            LET d == result[t].items IN
            /\ Len(d) <= 8
            /\ NoRepeat(d)
            /\ ArchSetOf(d) \subseteq arg.allowed
            /\ Len(d) < 8 => Cardinality(OwnedOf(arg.archetype, arg.allowed)) < 8

FirstOwned(pool, allowed) ==
    {pool[i] : i \in {j \in DOMAIN pool :
                         /\ pool[j] \in allowed
                         /\ \A k \in 1..(j-1) : pool[k] \notin allowed}}

\* The cards a deck is made of: the first owned card of each role pool that
\* is picked from, and the owned support, cheap-cycle and fallback cards.
Drawable(a, allowed) ==
    UNION {FirstOwned(POOLS[a][k], allowed) :
              k \in {"winCons", "smallSpells", "bigSpells", "air", "splash"}
                    \cup (IF a = "Bridge Spam" THEN {} ELSE {"buildings"})}
        \cup (allowed \cap (ArchSetOf(POOLS[a].supports)
                            \cup ArchSetOf(POOLS[a].cheapCycle)
                            \cup ArchSetOf(ANY)))

\* C19, amended: at most 8 cards, none twice, all owned, and fewer than 8
\* only when the drawable cards number fewer than 8.
C19_Amended ==
    \A t \in TargetAvgs :
        result[t] # Null =>
            LET d == result[t].items IN
            /\ Len(d) <= 8
            /\ NoRepeat(d)
            /\ ArchSetOf(d) \subseteq arg.allowed
            /\ Len(d) < 8 => Cardinality(Drawable(arg.archetype, arg.allowed)) < 8

\* A short deck from an ownership that is too sparse, and an empty one from
\* the empty ownership.
C19_Witness ==
    \E t \in TargetAvgs :
        /\ result[t] # Null
        /\ Len(result[t].items) \in 1..7
        /\ arg.allowed # {}
        /\ ArchSetOf(result[t].items) = Drawable(arg.archetype, arg.allowed)

NameSymbols == {"A", " ", "\n", "(", ")"}

InitNormalize ==
    /\ file = Null
    /\ deck = <<>>
    /\ analysis = Null
    /\ battles = <<>>
    /\ trained = Null
    /\ store = <<>>
    /\ pc = "idle"
    /\ arg = <<>>
    /\ local = Null
    /\ result = <<>>
    /\ lastSaved = <<>>
    /\ store0 = <<>>

AddSymbol(x) ==
    /\ result = <<>>
    /\ Len(arg) < MaxNameLen
    /\ arg' = Append(arg, x)
    /\ UNCHANGED <<file, deck, analysis, battles, trained, store, pc, local,
                   result, lastSaved, store0>>

Normalize ==
    /\ Len(result) < 2
    /\ result' = Append(result,
                        normalize(IF result = <<>> THEN arg ELSE result[1]))
    /\ UNCHANGED <<file, deck, analysis, battles, trained, store, pc, arg,
                   local, lastSaved, store0>>

NextNormalize ==
    \/ \E x \in NameSymbols : AddSymbol(x)
    \/ Normalize

SpecNormalize == InitNormalize /\ [][NextNormalize]_vars

\* C13 as stated: normalizing a normalized name returns it unchanged, for
\* every name.
C13_Original == Len(result) = 2 => result[2] = result[1]

(***************************************************************************)
(* Loading roles.ts.  data/roles.map.json is absent, unreadable, not JSON, *)
(* or the JSON of an object that may lack COST, ROLE or some role arrays.  *)
(***************************************************************************)
Unreadable == [kind |-> "unreadable"]

\* The built file without the sections in top and the role arrays in roles.
Lacking(top, roles) ==
    LET keep == {"kind", "COST", "ROLE"} \ top
    IN  [k \in keep |->
            IF k = "ROLE" THEN [r \in RoleNames \ roles |-> BuiltFile.ROLE[r]]
            ELSE BuiltFile[k]]

DataSources ==
    {Absent, Unreadable, Garbage}
        \cup {Text(Lacking(top, roles)) :
                 top \in SUBSET {"COST", "ROLE"}, roles \in SUBSET RoleNames}

\* readFileSafe: null when the read or the parse throws.
readFileSafe(src) == IF src.kind # "text" THEN Null ELSE src.json

\* The module body after readFileSafe: file?.ROLE.winCon reads a property of
\* undefined when the file is an object without ROLE, and the import fails.
ModuleLoad(f) ==
    IF f # Null /\ "ROLE" \notin DOMAIN f
    THEN [kind |-> "raised", error |-> "TypeError"]
    ELSE [kind |-> "loaded", registry |-> Registry(f)]

InitLoad ==
    /\ file = Null
    /\ deck = <<>>
    /\ analysis = Null
    /\ battles = <<>>
    /\ trained = Null
    /\ store = <<>>
    /\ pc = "idle"
    /\ arg \in DataSources
    /\ local = Null
    /\ result = Null
    /\ lastSaved = <<>>
    /\ store0 = <<>>

Load ==
    /\ pc = "idle"
    /\ file' = readFileSafe(arg)
    /\ result' = ModuleLoad(readFileSafe(arg))
    /\ pc' = "done"
    /\ UNCHANGED <<deck, analysis, battles, trained, store, arg, local,
                   lastSaved, store0>>

NextLoad == Load

SpecLoad == InitLoad /\ [][NextLoad]_vars

HasSection(src, k) == src.kind = "text" /\ k \in DOMAIN src.json

\* C14 as stated: whatever the data source, the load completes, and every
\* part the source does not provide is empty: no cost, no card in the role.
C14_Original ==
    pc = "done" =>
        /\ result.kind = "loaded"
        /\ ~HasSection(arg, "COST") => result.registry.COST = <<>>
        /\ \A r \in RoleNames :
              ~(HasSection(arg, "ROLE") /\ r \in DOMAIN arg.json.ROLE) =>
                  result.registry.ROLE[r] = {}

(***************************************************************************)
(* Claims about short decks and role flags.                                *)
(***************************************************************************)
KnownCost(reg, n) == IF n \in DOMAIN reg.COST THEN reg.COST[n] ELSE 4

\* C15 as stated: for a deck of fewer than 8 cards, the empty one included,
\* the average is a number, the sum of the costs (4 for an unknown name)
\* over the number of cards, to one decimal; unknown names are in no role
\* and are not cheap cyclers.
C15_Original ==
    (analysis # Null /\ Len(deck) < 8) =>
        LET reg == Registry(file)
            names == Map(normalize, deck)
            sum == SumSeq([i \in DOMAIN names |-> KnownCost(reg, names[i])])
            n == Len(deck)
        IN  /\ ~analysis.avgElixir.nan
            /\ n > 0 =>
                  /\ 2 * analysis.avgElixir.x * n - n <= 20 * sum
                  /\ 20 * sum < 2 * analysis.avgElixir.x * n + n
            /\ analysis.roles.cheapCycleCount =
                  Cardinality({i \in DOMAIN names :
                                  /\ names[i] \in DOMAIN reg.COST
                                  /\ reg.COST[names[i]] <= 2})
            /\ \A i \in DOMAIN analysis.roles.winCons :
                  analysis.roles.winCons[i] \in DOMAIN reg.COST

(***************************************************************************)
(* buildFeatures and analyzeDeck on one deck.  The deck is any sequence of *)
(* up to MaxFeatureDeck names, in the order of FeatureCards.               *)
(***************************************************************************)
FeatureCards ==
    <<Card("Zap"), Card("Fireball"), Card("Cannon"),
      Variant("Princess", "Evolution"), Card("Archer Queen"), Card("Hog Rider"),
      Card("Berserker")>>

CrownDiffs == {-4, -3, 0, 3, 5}

InitFeatures ==
    /\ file = BuiltFile
    /\ deck = <<>>
    /\ analysis = Null
    /\ battles = <<>>
    /\ trained = Null
    /\ store = <<>>
    /\ pc = "idle"
    /\ arg \in {[kind |-> "args", oppArch |-> ARCHES[i], crownDiff |-> c] :
                   i \in DOMAIN ARCHES, c \in CrownDiffs}
    /\ local = Null
    /\ result = Null
    /\ lastSaved = <<>>
    /\ store0 = <<>>

PutCard(i) ==
    /\ analysis = Null
    /\ result = Null
    /\ Len(deck) < MaxFeatureDeck
    /\ deck # <<>> =>
          i >= (CHOOSE j \in DOMAIN FeatureCards :
                    FeatureCards[j] = deck[Len(deck)])
    /\ deck' = Append(deck, FeatureCards[i])
    /\ UNCHANGED <<file, analysis, battles, trained, store, pc, arg, local,
                   result, lastSaved, store0>>

Features ==
    /\ result = Null
    /\ result' = List(buildFeatures(Registry(file), deck, arg.oppArch,
                                    arg.crownDiff))
    /\ UNCHANGED <<file, deck, analysis, battles, trained, store, pc, arg,
                   local, lastSaved, store0>>

NextFeatures ==
    \/ \E i \in DOMAIN FeatureCards : PutCard(i)
    \/ Features
    \/ Analyze

SpecFeatures == InitFeatures /\ [][NextFeatures]_vars

\* C17: a feature vector has 33 entries: 1, the average elixir, 7 role
\* flags, 16 win-condition entries, 7 opponent-archetype entries of which
\* exactly the opponent's is 1, and the crown differential within [-3, 3].
C17_Layout ==
    result # Null =>
        LET x == result.items
            names == Map(normalize, deck)
        IN  /\ Len(x) = 33
            /\ x[1] = 1
            /\ x[2] >= 0
            /\ deck # <<>> =>
                  LET sum == SumSeq([i \in DOMAIN names |->
                                        KnownCost(Registry(file), names[i])])
                  IN  /\ 2 * x[2] * Len(deck) - Len(deck) <= 200 * sum
                      /\ 200 * sum < 2 * x[2] * Len(deck) + Len(deck)
            /\ \A i \in 3..9 : x[i] \in {0, 1}
            /\ \A i \in 1..16 :
                  x[9 + i] = Bit(\E j \in DOMAIN names : names[j] = Card(WINCONS[i]))
            /\ \A i \in 1..7 : x[25 + i] = Bit(ARCHES[i] = arg.oppArch)
            /\ Cardinality({i \in 26..32 : x[i] = 1}) = 1
            /\ x[33] = Max(-3, Min(3, arg.crownDiff))
            /\ x[33] \in -3..3

\* A vector for a deck with a win condition and a crown differential of 5.
C17_Witness ==
    /\ result # Null
    /\ arg.crownDiff = 5
    /\ result.items[33] = 3
    /\ \E i \in DOMAIN deck : deck[i] = Card("Hog Rider")
    /\ result.items[10] = 1

RoleFlag ==
    [bigSpell |-> 3, smallSpell |-> 4, building |-> 5, airTarget |-> 6,
     splash |-> 7, reset |-> 8, champion |-> 9]

AnalysisFlag(a, r) ==
    CASE r = "bigSpell"   -> a.roles.hasBigSpell
      [] r = "smallSpell" -> a.roles.hasSmallSpell
      [] r = "building"   -> a.roles.hasBuilding
      [] r = "airTarget"  -> a.roles.hasAirTargeting
      [] r = "splash"     -> a.roles.hasSplash
      [] r = "reset"      -> a.roles.hasReset

\* C18 as stated: each role flag, of the analysis and of the feature vector,
\* is set iff a card of the deck, its suffix stripped, is in the role set;
\* so the two agree.
C18_Original ==
    LET names == Map(normalize, deck)
        inRole(r) == \E i \in DOMAIN names : names[i] \in Registry(file).ROLE[r]
    IN  /\ analysis # Null =>
              \A r \in DOMAIN RoleFlag \ {"champion"} :
                  AnalysisFlag(analysis, r) <=> inRole(r)
        /\ result # Null =>
              \A r \in DOMAIN RoleFlag :
                  result.items[RoleFlag[r]] = Bit(inRole(r))
        /\ (analysis # Null /\ result # Null) =>
              \A r \in DOMAIN RoleFlag \ {"champion"} :
                  result.items[RoleFlag[r]] = Bit(AnalysisFlag(analysis, r))

(***************************************************************************)
(* The ranking of /suggest (server.ts).  A score is kept times 100, an     *)
(* expected win probability times 10000.                                   *)
(***************************************************************************)
Abs(n) == IF n < 0 THEN -n ELSE n

scoreDeckForPlayer(reg, d, style) ==
    LET a == analyzeDeck(reg, d)
        bonus ==
            200 * Bit(a.archetype = style.favoredArchetype)
            + 60 * Bit(a.roles.hasSmallSpell)
            + 60 * Bit(a.roles.hasBigSpell)
            + 60 * Bit(a.roles.hasAirTargeting)
            + 40 * Bit(a.roles.hasSplash)
    IN  [score |->
            IF a.avgElixir.nan \/ style.avgElixir.nan THEN NaN
            ELSE Num(bonus
                     + 10 * Max(0, 15 - Abs(a.avgElixir.x - style.avgElixir.x))),
         analysis |-> a]

\* 1 / (1 + exp(-n)) times 10^6, for a whole n.
SigmoidTable ==
    <<1, 2, 6, 17, 45, 123, 335, 911, 2473, 6693, 17986, 47426, 119203,
      268941, 500000, 731059, 880797, 952574, 982014, 993307, 997527, 999089,
      999665, 999877, 999955, 999983, 999994, 999998, 999999>>

\* The probability of a logit (kept times 100), times 10^6.
ProbValue(p) ==
    LET n == p.logit \div 100
    IN  IF n < -14 THEN 0
        ELSE IF n > 14 THEN 1000000
        ELSE SigmoidTable[n + 15]

RECURSIVE Product(_)
Product(s) == IF s = <<>> THEN 1 ELSE s[1] * Product(Tail(s))

\* p += w * predictWinProb(model, deck, arch) over the archetypes of weight
\* other than 0; +p.toFixed(4)
MixProbs(preds, dist) ==
    LET D == Product([i \in DOMAIN ARCHES |-> dist[ARCHES[i]].den])
        used == {i \in DOMAIN ARCHES : dist[ARCHES[i]].num # 0}
        term(i) ==
            IF i \in used
            THEN dist[ARCHES[i]].num * (D \div dist[ARCHES[i]].den)
                 * ProbValue(preds[i])
            ELSE 0
    IN  IF \E i \in used : preds[i].nan THEN NaN
        ELSE Num((SumSeq([i \in DOMAIN ARCHES |-> term(i)]) + 50 * D)
                 \div (100 * D))

expectedWinProb(reg, model, d, dist) ==
    MixProbs([i \in DOMAIN ARCHES |-> predictWinProb(reg, model, d, ARCHES[i])],
             dist)

\* The comparators of the two sorts: does a go before b?  A difference that
\* is NaN is not below 0; in the second sort a difference of the
\* probabilities that is 0 or NaN gives way to the difference of the scores.
ScoreFirst(a, b) == ~a.score.nan /\ ~b.score.nan /\ a.score.x > b.score.x

\* A mutant: the second sort compares the scores only.
MlFirstByScore(a, b) == ScoreFirst(a, b)

MlFirst(a, b) ==
    IF a.ml.nan \/ b.ml.nan \/ a.ml.x = b.ml.x
    THEN ScoreFirst(a, b)
    ELSE a.ml.x > b.ml.x

First(by, a, b) == IF by = "ml" THEN MlFirst(a, b) ELSE ScoreFirst(a, b)

\* Array.prototype.sort: stable.
RECURSIVE Insert(_, _, _)
Insert(sorted, e, by) ==
    IF sorted = <<>> THEN <<e>>
    ELSE IF First(by, e, sorted[Len(sorted)])
    THEN Insert(SubSeq(sorted, 1, Len(sorted) - 1), e, by)
         \o <<sorted[Len(sorted)]>>
    ELSE Append(sorted, e)

RECURSIVE Sort(_, _, _)
Sort(list, n, by) ==
    IF n = 0 THEN <<>> ELSE Insert(Sort(list, n - 1, by), list[n], by)

NCandidates == 5

\* candidates.map(score).sort(by score)
RankByScore(reg, candidates, style) ==
    Sort([i \in DOMAIN candidates |->
             [deck |-> candidates[i],
              score |-> scoreDeckForPlayer(reg, candidates[i], style).score,
              ml |-> Null]],
         Len(candidates), "score")

\* ranked.map(ml).sort(by ml, then score)
RankByMl(reg, ranked, model, oppDist) ==
    Sort([i \in DOMAIN ranked |->
             [deck |-> ranked[i].deck,
              score |-> ranked[i].score,
              ml |-> expectedWinProb(reg, model, ranked[i].deck, oppDist)]],
         Len(ranked), "ml")

Ranking(reg, ranked, rank, trainer) ==
    IF rank \notin {"heuristic", "none"} /\ trainer.model # Null
    THEN [ranker |-> "ml",
          suggestions |-> RankByMl(reg, ranked, trainer.model, trainer.oppDist)]
    ELSE [ranker |-> "heuristic", suggestions |-> ranked]

suggest(reg, candidates, style, rank, trainer) ==
    Ranking(reg, RankByScore(reg, candidates, style), rank, trainer)

(***************************************************************************)
(* One request of /suggest.  The five calls of generateDeck return the     *)
(* same deck; the ranking is run on every list of five of the decks below, *)
(* the lists of one deck five times among them.  The empty deck, whose     *)
(* score is NaN, comes only as five empty decks.                           *)
(***************************************************************************)
CandidateDecks == {d.items : d \in {HogDeck, EvoDeck, SiegeDeck, OtherDeck}}

CandidateLists ==
    [1..NCandidates -> CandidateDecks] \cup {[i \in 1..NCandidates |-> <<>>]}

Styles ==
    {[favoredArchetype |-> "Cycle", avgElixir |-> Num(30)],
     [favoredArchetype |-> "Siege", avgElixir |-> Num(45)],
     [favoredArchetype |-> "Hybrid/Other", avgElixir |-> NaN]}

RankParams == {"", "heuristic", "retrain"}

\* Weights on the small-spell flag, on the first two win conditions and on
\* the first opponent archetype; a record of other dims; one weight too many.
RankWeights(k) ==
    [j \in 1..k |->
        CASE j = 4 -> -1 [] j = 10 -> 2 [] j = 11 -> 1 [] j = 26 -> 1
          [] OTHER -> 0]

RankModels ==
    {Null,
     [kind |-> "model", dims |-> 33, w |-> RankWeights(33),
      feat |-> "buildFeatures(d, a, 0)"],
     [kind |-> "model", dims |-> 2, w |-> RankWeights(33),
      feat |-> "buildFeatures(d, a, 0)"],
     [kind |-> "model", dims |-> 33, w |-> RankWeights(34),
      feat |-> "buildFeatures(d, a, 0)"]}

OppDists ==
    {NormalizeDist([a \in {"Cycle", "Siege"} |-> 1])}

InitSuggest ==
    /\ file = BuiltFile
    /\ deck = <<>>
    /\ analysis = Null
    /\ battles = <<>>
    /\ trained = Null
    /\ store = <<>>
    /\ pc = "idle"
    /\ arg \in {[kind |-> "args", candidates |-> c, style |-> s, rank |-> r,
                 trainer |-> [model |-> m, oppDist |-> o]] :
                   c \in CandidateLists, s \in Styles, r \in RankParams,
                   m \in RankModels, o \in OppDists}
    /\ local = Null
    /\ result = Null
    /\ lastSaved = <<>>
    /\ store0 = <<>>

Suggest ==
    /\ pc = "idle"
    /\ result' = suggest(Registry(file), arg.candidates, arg.style, arg.rank,
                         arg.trainer)
    /\ pc' = "done"
    /\ UNCHANGED <<file, deck, analysis, battles, trained, store, arg, local,
                   lastSaved, store0>>

NextSuggest == Suggest

SpecSuggest == InitSuggest /\ [][NextSuggest]_vars

ModelUsed == arg.rank \notin {"heuristic", "none"} /\ arg.trainer.model # Null

Below(a, b) == ~a.nan /\ ~b.nan /\ a.x < b.x

\* C16: the suggestions are ordered.  Without a model, or with heuristic
\* ranking requested, no suggestion has a lower score than a later one.
\* With a model, no suggestion has a lower expected win probability than a
\* later one, and of two with the same probability the earlier has no lower
\* score.
C16_Ordered ==
    pc = "done" =>
        LET r == result.suggestions
        IN  /\ Len(r) = NCandidates
            /\ \A i \in DOMAIN r : \A j \in DOMAIN r :
                  i < j =>
                      IF ModelUsed
                      THEN /\ r[i].ml = expectedWinProb(Registry(file),
                                  arg.trainer.model, r[i].deck,
                                  arg.trainer.oppDist)
                           /\ ~Below(r[i].ml, r[j].ml)
                           /\ r[i].ml = r[j].ml => ~Below(r[i].score, r[j].score)
                      ELSE ~Below(r[i].score, r[j].score)

\* Ranked by the model: two suggestions of different probability, and two
\* of the same probability and different scores.
C16_Witness ==
    /\ pc = "done"
    /\ ModelUsed
    /\ \E i \in 1..NCandidates : \E j \in 1..NCandidates :
          /\ i < j
          /\ Below(result.suggestions[j].ml, result.suggestions[i].ml)
    /\ \E i \in 1..NCandidates : \E j \in 1..NCandidates :
          /\ i < j
          /\ result.suggestions[i].ml = result.suggestions[j].ml
          /\ Below(result.suggestions[j].score, result.suggestions[i].score)

====
